---- MODULE Spec2Model ----
(***************************************************************************)
(* Model of the agent orchestration engine of cda-complete-local:          *)
(*   agent/graph.py            router and graph wiring                     *)
(*   agent/nodes/specialists.py  tiered decoder (run_specialist)           *)
(*   agent/nodes/validator.py  validator node                              *)
(*   agent/tools/specialist_tools.py  tool registry                        *)
(*   lambda_entrypoint.py      handle_scan / handle_resume run-loops       *)
(*   local_runner.py           LocalRunner.run_scan, poll                  *)
(*   core/interface_adapter.py invoke_backend (local resume request)       *)
(*                                                                         *)
(* One session (scan_id) is modelled.  A graph step is one action: the     *)
(* node function, the reducers, the conditional edge, the checkpoint       *)
(* write and the body of the run-loop's `for step in app.stream(...)`.     *)
(* The generative oracle, the clock, the clone and process termination     *)
(* are nondeterministic inputs.                                            *)
(***************************************************************************)
EXTENDS Integers, Sequences, FiniteSets, TLC

\* ------------------------------------------------------------------ bounds
MaxToolRounds == 1      \* rounds of tool results in one message log
MaxResumes == 1         \* injected answers in one message log
MaxLogLen == 6          \* length of the message logs handed to the router probe
MaxDecodes == 5         \* decode calls in one run of the decoder probe
MaxSubmits == 3         \* submit calls on one TaskBroker
MaxCalls == 3           \* tool calls in the last message handed to the order probe
MaxAnswers == 2         \* answers submitted for the session of the poll probe

\* ------------------------------------------------- program constants
FuzzyBudget == 3        \* specialists.py:258  fuzzy_count >= 3
T2Attempts == 3         \* specialists.py:317  for attempt in range(3)
LoopWindow == 10        \* graph.py:30         messages[-10:]
LoopThreshold == 5      \* graph.py:36         non_tool_count >= 5

Specialists == {"architect", "intelligence", "integrator", "validator"}
DecoderRoles == {"architect", "intelligence", "integrator"}
END == "__end__"
START == "__start__"

\* ------------------------------------------------------------- sequences
Last(s) == s[Len(s)]

Min(a, b) == IF a < b THEN a ELSE b

RECURSIVE SeqsUpTo(_, _)
SeqsUpTo(S, n) ==
  IF n = 0 THEN {<<>>}
  ELSE LET shorter == SeqsUpTo(S, n - 1)
       IN shorter \cup {Append(s, x) : s \in {t \in shorter : Len(t) = n - 1}, x \in S}

\* ------------------------------------------------------------- messages
\* A message of the log: type is "human", "ai" or "tool"; an ai message
\* carries tool calls, a tool message the id of the call it answers.
\* src names the writer (a node, or "resume" for an injected answer).
NoId == 0

ToolCall(name, id, question, patterns) ==
  [name |-> name, id |-> id, question |-> question, patterns |-> patterns]

AIMessage(src, calls) ==
  [type |-> "ai", src |-> src, tool_calls |-> calls, tool_call_id |-> NoId, content |-> "thought"]

HumanMessage(src, content) ==
  [type |-> "human", src |-> src, tool_calls |-> <<>>, tool_call_id |-> NoId, content |-> content]

ToolMessage(src, id, content) ==
  [type |-> "tool", src |-> src, tool_calls |-> <<>>, tool_call_id |-> id, content |-> content]

\* `not hasattr(msg, "tool_calls") or not msg.tool_calls`
NoToolCalls(m) == m.type # "ai" \/ Len(m.tool_calls) = 0

\* uuid.uuid4(): a fresh id; the i-th call of the message at log position pos
IdStride == 4
FreshId(pos, i) == pos * IdStride + i

CallNames(m) == {m.tool_calls[i].name : i \in 1..Len(m.tool_calls)}

\* --------------------------------------------------------------- router
\* graph.py:29-34  trailing messages without tool calls among messages[-10:]
RECURSIVE TrailingNoTool(_, _)
TrailingNoTool(msgs, budget) ==
  IF budget = 0 \/ Len(msgs) = 0 THEN 0
  ELSE IF NoToolCalls(Last(msgs))
       THEN 1 + TrailingNoTool(SubSeq(msgs, 1, Len(msgs) - 1), budget - 1)
       ELSE 0

non_tool_count(msgs) == TrailingNoTool(msgs, LoopWindow)

ForcedSuccessorSkipping(active) ==
  CASE active = "architect" -> "integrator"
    [] active = "intelligence" -> "validator"
    [] active = "integrator" -> "reporter"
    [] OTHER -> "reporter"

\* graph.py:41-55 and 69-83: the successor chain, "reporter" for an unknown phase
ForcedSuccessor(active) ==
  CASE active = "architect" -> "intelligence"
    [] active = "intelligence" -> "integrator"
    [] active = "integrator" -> "validator"
    [] active = "validator" -> "reporter"
    [] OTHER -> "reporter"

\* graph.py:63-93: the loop returns at the first call that is a signal
RECURSIVE ScanToolCalls(_, _, _)
ScanToolCallsSkippingTools(calls, i, active) ==
  IF i > Len(calls) THEN active
  ELSE LET tool_name == calls[i].name
       IN CASE tool_name = "complete_phase" -> ForcedSuccessor(active)
            [] tool_name = "complete_validation" -> "reporter"
            [] tool_name = "emergency_exit" -> "reporter"
            [] OTHER -> ScanToolCalls(calls, i + 1, active)

ScanToolCalls(calls, i, active) ==
  IF i > Len(calls) THEN "tools"
  ELSE LET tool_name == calls[i].name
       IN CASE tool_name = "complete_phase" -> ForcedSuccessor(active)
            [] tool_name = "complete_validation" -> "reporter"
            [] tool_name = "emergency_exit" -> "reporter"
            [] OTHER -> ScanToolCalls(calls, i + 1, active)

route_specialist_unguarded(st) ==
  IF Len(st.messages) = 0 THEN "recon"
  ELSE IF NoToolCalls(Last(st.messages)) THEN st.active_specialist
  ELSE ScanToolCalls(Last(st.messages).tool_calls, 1, st.active_specialist)

route_specialist(st) ==
  IF Len(st.messages) = 0 THEN "recon"
  ELSE IF non_tool_count(st.messages) >= LoopThreshold
       THEN ForcedSuccessor(st.active_specialist)
  ELSE IF NoToolCalls(Last(st.messages)) THEN st.active_specialist
  ELSE ScanToolCalls(Last(st.messages).tool_calls, 1, st.active_specialist)

route_tools_restarting(st) == "architect"

route_tools(st) ==
  IF st.active_specialist \notin Specialists THEN "architect"
  ELSE st.active_specialist

\* graph.py:132-180: the targets each node's edges declare
PathMap(node) ==
  CASE node = "architect" -> {"architect", "tools", "intelligence"}
    [] node = "intelligence" -> {"intelligence", "tools", "integrator"}
    [] node = "integrator" -> {"integrator", "tools", "validator"}
    [] node = "validator" -> {"validator", "tools", "reporter"}
    [] node = "recon" -> {"architect"}
    [] node = "reporter" -> {END}
    [] node = START -> {"recon"}
    [] OTHER -> {"architect", "intelligence", "integrator", "validator"}

EdgeResultEndingAfterRecon(node, st) ==
  CASE node \in Specialists -> route_specialist(st)
    [] node = "tools" -> route_tools(st)
    [] node = "recon" -> END
    [] node = "reporter" -> END
    [] OTHER -> "recon"

\* The value the edge out of `node` computes on state st.
EdgeResult(node, st) ==
  CASE node \in Specialists -> route_specialist(st)
    [] node = "tools" -> route_tools(st)
    [] node = "recon" -> "architect"
    [] node = "reporter" -> END
    [] OTHER -> "recon"

\* A conditional edge with a path map fails on a result the map lacks.
EdgeFails(node, st) == EdgeResult(node, st) \notin PathMap(node)

\* ------------------------------------------------------ exception classes
\* Python matches the except clauses of a try statement in textual order;
\* pydantic's ValidationError derives from ValueError.
Bases(exc) ==
  CASE exc = "ValidationError" -> {"ValidationError", "ValueError", "Exception"}
    [] exc = "ValueError" -> {"ValueError", "Exception"}
    [] exc = "JSONDecodeError" -> {"JSONDecodeError", "ValueError", "Exception"}
    [] OTHER -> {exc, "Exception"}

RECURSIVE FirstHandler(_, _, _)
FirstHandler(clauses, i, exc) ==
  IF i > Len(clauses) THEN "unhandled"
  ELSE IF clauses[i] \in Bases(exc) THEN clauses[i]
  ELSE FirstHandler(clauses, i + 1, exc)

\* specialists.py:335-350
T2ExceptClauses == <<"ValueError", "ValidationError", "Exception">>

\* ------------------------------------------------------------ AgentAction
NoArgs == [patterns |-> <<>>, file_path |-> ""]

Action(action_type, tool_name, tool_args, human_question, phase_summary) ==
  [action_type |-> action_type, tool_name |-> tool_name, tool_args |-> tool_args,
   human_question |-> human_question, phase_summary |-> phase_summary]

CallTool(name, args) == Action("call_tool", name, args, "", "")
AskHuman(q) == Action("ask_human", "", NoArgs, q, "")
FinishPhase(summary) == Action("finish_phase", "", NoArgs, "", summary)

\* action_schema.py:14 and 39-73: TRUE when construction raises no ValidationError
validate_action(a) ==
  /\ a.action_type \in {"call_tool", "ask_human", "finish_phase"}
  /\ a.action_type = "call_tool" =>
       /\ a.tool_name # ""
       /\ a.tool_name = "grep_codebase" =>
            /\ a.tool_args # NoArgs
            /\ Len(a.tool_args.patterns) > 0
  /\ a.action_type = "ask_human" => a.human_question # ""
  /\ a.action_type = "finish_phase" => a.phase_summary # ""

Questions == {"q1", "q2"}

\* Structured outputs the oracle can be asked for.  Those that pass
\* validate_action are what T1/T2 can return; the others surface as
\* a ValidationError of the attempt.
CandidateActions ==
  {CallTool("grep_codebase", [patterns |-> <<"docker">>, file_path |-> ""]),
   CallTool("grep_codebase", NoArgs),
   CallTool("default_api:grep_codebase", NoArgs),
   CallTool("", NoArgs),
   CallTool("emergency_exit", NoArgs),
   CallTool("complete_validation", NoArgs),
   CallTool("bogus_tool", NoArgs),
   FinishPhase("summary"),
   FinishPhase("")}
  \cup {AskHuman(q) : q \in Questions \cup {""}}

OracleActions == {a \in CandidateActions : validate_action(a)}

\* specialists.py:405
CleanToolName(n) == IF n = "default_api:grep_codebase" THEN "grep_codebase" ELSE n

\* specialists.py:399-429  _convert_action_to_message; pos is the log position
\* the message will take (its call ids are fresh).
ConvertCalls(action, pos) ==
  CASE action.action_type = "call_tool" ->
         IF action.tool_name # ""
         THEN <<ToolCall(CleanToolName(action.tool_name), FreshId(pos, 1), "",
                         action.tool_args.patterns)>>
         ELSE <<>>
    [] action.action_type = "ask_human" ->
         <<ToolCall("ask_human", FreshId(pos, 1),
                    IF action.human_question # "" THEN action.human_question
                    ELSE "Confirm finding?", <<>>)>>
    [] action.action_type = "finish_phase" ->
         <<ToolCall("complete_phase", FreshId(pos, 1), "", <<>>)>>
    [] OTHER -> <<>>

_convert_action_to_message(action, role, pos) == AIMessage(role, ConvertCalls(action, pos))

\* ------------------------------------------------------ T3 fuzzy parsing
\* A free text is described by what smart_fuzzy_parse looks at: its length
\* class ("empty", "short" = under 5 characters stripped, "mid", "long" =
\* over 100), whether it parses as a JSON object with a "thought" key (and
\* then the fields of that object, "" for an absent key), and which of the
\* words and tokens the heuristics search for occur in it.
Text(len, json, thought, jaction, grep, pattern, keywords, read, ext, file, finish) ==
  [len |-> len, json |-> json, thought_str |-> thought, jaction |-> jaction,
   grep_word |-> grep, pattern_word |-> pattern, keywords |-> keywords,
   read_word |-> read, ext_word |-> ext, file_token |-> file,
   finish_word |-> finish]

NoJson == Action("", "", NoArgs, "", "")

Texts ==
  {Text("empty", FALSE, TRUE, NoJson, FALSE, FALSE, <<>>, FALSE, FALSE, "", FALSE),
   Text("short", FALSE, TRUE, NoJson, FALSE, FALSE, <<>>, FALSE, FALSE, "", FALSE),
   \* {"thought": "...", "action_type": "call_tool", "tool_name": "grep_codebase", "tool_args": {"patterns": ["docker"]}}
   Text("long", TRUE, TRUE,
        Action("call_tool", "grep_codebase", [patterns |-> <<"docker">>, file_path |-> ""], "", ""),
        TRUE, TRUE, <<"docker">>, FALSE, FALSE, "", FALSE),
   \* {"thought": "...", "action_type": "call_tool", "tool_name": "delete_repo"}
   Text("mid", TRUE, TRUE, Action("call_tool", "delete_repo", NoArgs, "", ""),
        FALSE, FALSE, <<>>, FALSE, FALSE, "", FALSE),
   \* {"thought": "..."}
   Text("mid", TRUE, TRUE, NoJson, FALSE, FALSE, <<>>, FALSE, FALSE, "", FALSE),
   \* {"thought": "...", "action_type": "call_tool"}: rejected by the schema
   Text("mid", TRUE, TRUE, Action("call_tool", "", NoArgs, "", ""),
        FALSE, FALSE, <<>>, FALSE, FALSE, "", FALSE),
   \* {"thought": 7, "action_type": "finish_phase"}
   Text("mid", TRUE, FALSE, Action("finish_phase", "", NoArgs, "", "done"),
        FALSE, FALSE, <<>>, FALSE, FALSE, "", TRUE),
   \* "grep with pattern docker, s3"
   Text("mid", FALSE, TRUE, NoJson, TRUE, TRUE, <<"docker", "s3">>, FALSE, FALSE, "", FALSE),
   \* "search for patterns docker kubernetes lambda ec2 s3 dynamodb"
   Text("mid", FALSE, TRUE, NoJson, TRUE, TRUE,
        <<"docker", "kubernetes", "lambda", "ec2", "s3", "dynamodb">>, FALSE, FALSE, "", FALSE),
   \* "I will search for docker and s3 configuration"
   Text("mid", FALSE, TRUE, NoJson, TRUE, FALSE, <<"docker", "s3">>, FALSE, FALSE, "", FALSE),
   \* "I should read src/main.py next"
   Text("mid", FALSE, TRUE, NoJson, FALSE, FALSE, <<>>, TRUE, TRUE, "src/main.py", FALSE),
   \* "phase 1 is done"
   Text("mid", FALSE, TRUE, NoJson, FALSE, FALSE, <<>>, FALSE, FALSE, "", TRUE),
   \* a long text with none of the searched words
   Text("long", FALSE, TRUE, NoJson, FALSE, FALSE, <<>>, FALSE, FALSE, "", FALSE)}

\* specialists.py:166-174: the AgentAction rebuilt from the JSON object
JsonAction(text, role) ==
  Action(IF text.jaction.action_type = "" THEN "finish_phase" ELSE text.jaction.action_type,
         text.jaction.tool_name,
         text.jaction.tool_args,
         text.jaction.human_question,
         IF text.jaction.phase_summary = "" THEN "role complete" ELSE text.jaction.phase_summary)

\* specialists.py:178-228
Heuristics(text, role) ==
  IF text.grep_word /\ text.pattern_word /\ Len(text.keywords) > 0
  THEN CallTool("grep_codebase",
                [patterns |-> SubSeq(text.keywords, 1, Min(5, Len(text.keywords))),
                 file_path |-> ""])
  ELSE IF text.read_word /\ text.ext_word /\ text.file_token # ""
  THEN CallTool("read_file", [patterns |-> <<>>, file_path |-> text.file_token])
  ELSE IF text.finish_word
  THEN FinishPhase(IF text.len = "long" THEN "text" ELSE "analysis complete")
  ELSE FinishPhase("completed with output")

\* specialists.py:138-228; exc is the exception that escapes, "none" if none
smart_fuzzy_parse(text, role) ==
  IF text.len \in {"empty", "short"}
  THEN [exc |-> "none", action |-> FinishPhase("completed with limited findings")]
  ELSE IF text.json /\ ~text.thought_str
  THEN [exc |-> "TypeError", action |-> NoJson]
  ELSE IF text.json /\ validate_action(JsonAction(text, role))
  THEN [exc |-> "none", action |-> JsonAction(text, role)]
  ELSE [exc |-> "none", action |-> Heuristics(text, role)]

\* ------------------------------------------------------------ the oracle
\* What one decode call gets from the oracle: the outcome of the T1 call,
\* of each T2 attempt and of the T3 call.
T1Outcomes ==
  {[k |-> "unavailable", action |-> NoJson], [k |-> "failed", action |-> NoJson]}
  \cup {[k |-> "ok", action |-> a] : a \in OracleActions}

T2Failures ==
  {[k |-> "none", action |-> NoJson],
   [k |-> "ValidationError", action |-> NoJson],
   [k |-> "TransportError", action |-> NoJson]}

T2Outcomes == T2Failures \cup {[k |-> "ok", action |-> a] : a \in OracleActions}

\* attempts after the first success are never made: one script per prefix
T2Scripts ==
  {sc \in [1..T2Attempts -> T2Outcomes] :
     \A i \in 1..T2Attempts : \A j \in 1..T2Attempts :
        (i < j /\ sc[i].k = "ok") => sc[j] = [k |-> "none", action |-> NoJson]}

T3Outcomes ==
  {[k |-> "raise", text |-> CHOOSE t \in Texts : t.len = "empty"]}
  \cup {[k |-> "text", text |-> t] : t \in Texts}

\* ---------------------------------------------------------- run_specialist
Absent == -1

DecodeResult(exc, msg, fuzzy, tier, calls, attempts, feedback) ==
  [exc |-> exc, msg |-> msg, fuzzy_parse_count |-> fuzzy, tier |-> tier,
   oracle_calls |-> calls, t2_attempts |-> attempts, feedback |-> feedback]

NoMsg == HumanMessage("none", "")

\* specialists.py:317-350: the attempts, the feedback messages appended to
\* the context, and the except clause each failure lands in
RECURSIVE T2Loop(_, _, _)
T2Loop(script, attempt, feedback) ==
  IF attempt > T2Attempts
  THEN [k |-> "exhausted", action |-> NoJson, exc |-> "none",
        attempts |-> T2Attempts, feedback |-> feedback]
  ELSE LET o == script[attempt]
       IN IF o.k = "ok"
          THEN [k |-> "ok", action |-> o.action, exc |-> "none",
                attempts |-> attempt, feedback |-> feedback]
          ELSE IF o.k = "none"
          THEN T2Loop(script, attempt + 1, feedback + 1)
          ELSE LET clause == FirstHandler(T2ExceptClauses, 1, o.k)
               IN CASE clause = "ValueError" ->
                         [k |-> "raise", action |-> NoJson, exc |-> o.k,
                          attempts |-> attempt, feedback |-> feedback]
                    [] clause = "ValidationError" ->
                         T2Loop(script, attempt + 1, feedback + 1)
                    [] OTHER -> T2Loop(script, attempt + 1, feedback)

FuzzyOrForceWithoutSignal(st, role, orc, pos, calls, feedback) ==
  LET parsed == smart_fuzzy_parse(orc.t3.text, role)
  IN IF orc.t3.k = "text" /\ orc.t3.text.len # "empty" /\ parsed.exc = "none"
     THEN DecodeResult("none", _convert_action_to_message(parsed.action, role, pos),
                       st.fuzzy_parse_count + 1, "T3", calls + 1, T2Attempts, feedback)
     ELSE DecodeResult("none", AIMessage(role, <<>>),
                       0, "T4", calls + 1, T2Attempts, feedback)

\* specialists.py:352-397: T3, falling through to T4
FuzzyOrForce(st, role, orc, pos, calls, feedback) ==
  LET parsed == smart_fuzzy_parse(orc.t3.text, role)
  IN IF orc.t3.k = "text" /\ orc.t3.text.len # "empty" /\ parsed.exc = "none"
     THEN DecodeResult("none", _convert_action_to_message(parsed.action, role, pos),
                       st.fuzzy_parse_count + 1, "T3", calls + 1, T2Attempts, feedback)
     ELSE DecodeResult("none",
                       _convert_action_to_message(FinishPhase("completed with partial findings"),
                                                  role, pos),
                       0, "T4", calls + 1, T2Attempts, feedback)

run_specialist_guarding_late(st, role, creds, orc) ==
  LET pos == Len(st.messages) + 1
      c1 == IF orc.t1.k = "unavailable" THEN 0 ELSE 1
      r2 == T2Loop(orc.t2, 1, 0)
  IN IF st.fuzzy_parse_count > FuzzyBudget
     THEN DecodeResult("none",
                       AIMessage(role, <<ToolCall("complete_phase", FreshId(pos, 1), "", <<>>)>>),
                       0, "guard", 0, 0, 0)
     ELSE IF ~creds
     THEN DecodeResult("ValueError", NoMsg, Absent, "T1", 0, 0, 0)
     ELSE IF orc.t1.k = "ok"
     THEN DecodeResult("none", _convert_action_to_message(orc.t1.action, role, pos),
                       Absent, "T1", 1, 0, 0)
     ELSE IF r2.k = "ok"
     THEN DecodeResult("none", _convert_action_to_message(r2.action, role, pos),
                       Absent, "T2", c1 + r2.attempts, r2.attempts, r2.feedback)
     ELSE IF r2.k = "raise"
     THEN DecodeResult(r2.exc, NoMsg, Absent, "T2", c1 + r2.attempts, r2.attempts, r2.feedback)
     ELSE FuzzyOrForce(st, role, orc, pos, c1 + T2Attempts, r2.feedback)

\* specialists.py:251-397
run_specialist(st, role, creds, orc) ==
  LET pos == Len(st.messages) + 1
      c1 == IF orc.t1.k = "unavailable" THEN 0 ELSE 1
      r2 == T2Loop(orc.t2, 1, 0)
  IN IF st.fuzzy_parse_count >= FuzzyBudget
     THEN DecodeResult("none",
                       AIMessage(role, <<ToolCall("complete_phase", FreshId(pos, 1), "", <<>>)>>),
                       0, "guard", 0, 0, 0)
     ELSE IF ~creds
     THEN DecodeResult("ValueError", NoMsg, Absent, "T1", 0, 0, 0)
     ELSE IF orc.t1.k = "ok"
     THEN DecodeResult("none", _convert_action_to_message(orc.t1.action, role, pos),
                       Absent, "T1", 1, 0, 0)
     ELSE IF r2.k = "ok"
     THEN DecodeResult("none", _convert_action_to_message(r2.action, role, pos),
                       Absent, "T2", c1 + r2.attempts, r2.attempts, r2.feedback)
     ELSE IF r2.k = "raise"
     THEN DecodeResult(r2.exc, NoMsg, Absent, "T2", c1 + r2.attempts, r2.attempts, r2.feedback)
     ELSE FuzzyOrForce(st, role, orc, pos, c1 + T2Attempts, r2.feedback)

\* ------------------------------------------------------------- validator
\* What the tool-bound oracle can answer in the validator: an exception, or
\* a response with tool calls of any name.
ValidatorCall(n) ==
  [name |-> n, question |-> IF n \in {"ask_human", "ask_human_lambda"} THEN "q2" ELSE "",
   patterns |-> <<>>]

ValidatorCallNames ==
  {<<>>,
   <<"complete_validation">>,
   <<"complete_phase">>,
   <<"emergency_exit">>,
   <<"grep_codebase">>,
   <<"grep_codebase", "complete_validation">>,
   <<"ask_human">>,
   <<"ask_human_lambda">>,
   <<"check_price_knowledge", "ask_human">>,
   <<"check_price_knowledge", "ask_human_lambda">>}

ValidatorResponses ==
  {[k |-> "raise", calls |-> <<>>]}
  \cup {[k |-> "ok", calls |-> [i \in 1..Len(ns) |-> ValidatorCall(ns[i])]] :
          ns \in ValidatorCallNames}

\* validator.py:51-90
validator_node(st, creds, resp) ==
  LET pos == Len(st.messages) + 1
      calls == [i \in 1..Len(resp.calls) |->
                  ToolCall(resp.calls[i].name, FreshId(pos, i),
                           resp.calls[i].question, resp.calls[i].patterns)]
  IN IF ~creds
     THEN DecodeResult("ValueError", NoMsg, Absent, "validator", 0, 0, 0)
     ELSE IF resp.k = "raise"
     THEN DecodeResult("TransportError", NoMsg, Absent, "validator", 1, 0, 0)
     ELSE DecodeResult("none", AIMessage("validator", calls), Absent, "validator", 1, 0, 0)

\* ----------------------------------------------------------- tools node
\* specialist_tools.py:207-214 with ask_human as the runner installs it:
\* local_runner.py:23 (SCROOGE_ENV=LOCAL) keeps the name ask_human and makes
\* it raise; lambda_entrypoint.py:182-213 replaces it by ask_human_lambda.
PauseTool(run) == IF run = "lambda" THEN "ask_human_lambda" ELSE "ask_human"

Registry(run) ==
  {"grep_codebase", "read_file", "check_price_knowledge", "calculate_cost",
   "complete_validation", PauseTool(run)}

PausingCalls(calls, run) == {i \in 1..Len(calls) : calls[i].name = PauseTool(run)}

\* graph.py:124 ToolNode(SPECIALIST_TOOLS): every call of the last message is
\* dispatched by name; a name the registry lacks is answered by an error
\* result; the pausing tool raises HumanInputNeeded(question).
tools_node(st, run) ==
  LET calls == Last(st.messages).tool_calls
      pausing == PausingCalls(calls, run)
      first == CHOOSE i \in pausing : \A j \in pausing : i <= j
  IN IF pausing # {}
     THEN [exc |-> "HumanInputNeeded", question |-> calls[first].question, msgs |-> <<>>]
     ELSE [exc |-> "none", question |-> "",
           msgs |-> [i \in 1..Len(calls) |->
                       ToolMessage("tools", calls[i].id,
                                   IF calls[i].name \in Registry(run) THEN "result" ELSE "error")]]

\* The calls of the last message that have run when the pausing tool
\* raises: ToolNode dispatches the calls in the order of the message, so
\* every call placed before the first pausing call has been executed and
\* its result is dropped with the step.
ExecutedBeforePause(calls, run) ==
  LET pausing == PausingCalls(calls, run)
  IN IF pausing = {} THEN {}
     ELSE {i \in 1..Len(calls) : \A j \in pausing : i < j}

\* ----------------------------------------------------------- checkpoints
\* The reducer of the messages channel of the workflow state: what a node
\* returns is appended to the log, nothing is removed or rewritten.
add_messages(left, right) == left \o right

EmptyLedger == "InvestigationLedger()"

StateValues(messages, active, fuzzy, pricing, ledger, report) ==
  [messages |-> messages, active_specialist |-> active, fuzzy_parse_count |-> fuzzy,
   pricing_context |-> pricing, ledger |-> ledger, final_report |-> report]

NoValues == StateValues(<<>>, "none", 0, <<>>, "none", "none")

\* what the checkpointer holds for the thread: the state values, the node
\* to run next and the node that wrote last
Checkpoint(values, next, last_node) ==
  [has |-> TRUE, values |-> values, next |-> next, last_node |-> last_node]

NoCp == [has |-> FALSE, values |-> NoValues, next |-> "none", last_node |-> "none"]

\* lambda_entrypoint.py:324-339, local_runner.py:146-161
InitialState == StateValues(<<>>, "architect", 0, <<>>, EmptyLedger, "none")

\* app.stream(initial_state): the input is written over the thread's values
\* (messages through the appending reducer) and the graph starts at its
\* entry point.
StreamInput(base, input) ==
  Checkpoint([input EXCEPT !.messages = add_messages(base.values.messages, input.messages)],
             "recon", START)

\* The checkpoint after `node` wrote new values: the edge out of node gives next.
Commit(node, values) == Checkpoint(values, EdgeResult(node, values), node)

\* lambda_entrypoint.py:215-247
should_restore_brain(target, brain_in_s3) ==
  target \in {"RUNNING", "PAUSED"} /\ brain_in_s3

\* ------------------------------------------------------------ TaskBroker
\* core/task_broker.py.  A payload is a dict; the two keys submit reads are
\* kept, an absent key is the empty value.
Payload(patterns, directory) == [patterns |-> patterns, directory |-> directory]

BrokerTasks == {"grep", "list_files", "read"}

BrokerPayloads ==
  {Payload(<<"docker">>, ""), Payload(<<>>, ""), Payload(<<>>, "lib")}

\* task_broker.py:57-60  _task_key: the md5 of the canonical JSON of the
\* pair; equal pairs give equal keys
_task_key(task_type, payload) == <<task_type, payload>>

BrokerKeys == {_task_key(t, p) : t \in BrokerTasks, p \in BrokerPayloads}

\* A result is a dict: the keys it has and what it found ("" when it has
\* no findings to carry).
Result(keys, found) == [keys |-> keys, found |-> found]

NoResult == Result({}, "None")

\* search.py:50-126 execute_safe_grep, search.py:19-46 execute_list_files and
\* task_broker.py:74-88: what the operation behind a task can return; the
\* files it reads may change between two executions.
OpResults(task_type, payload) ==
  CASE task_type = "grep" ->
         IF Len(payload.patterns) = 0
         THEN {Result({"results", "error", "files_scanned"}, "")}
         ELSE {Result({"results", "files_scanned"}, ""),
               Result({"results", "files_scanned"}, "a.py:1"),
               Result({"results", "files_scanned"}, "b.py:7")}
    [] task_type = "list_files" ->
         {Result({"files"}, ""), Result({"files"}, "a.py"), Result({"files"}, "Error")}
    [] OTHER -> {Result({"error"}, "")}

BrokerResults ==
  UNION {OpResults(t, p) : t \in BrokerTasks, p \in BrokerPayloads}

\* bool(d) of a dict d, and of None
TruthyHasFindings(r) == r.found # ""

Truthy(r) == r # NoResult /\ r.keys # {}

\* SharedCache.get / SharedCache.set, task_broker.py:12-21
CacheGet(store, key) == store[key]

CacheSet(store, key, value) == [store EXCEPT ![key] = value]

\* task_broker.py:62-92 submit, run without interruption: op is what the
\* operation returns if it is executed
submit(b, task_type, payload, op) ==
  LET key == _task_key(task_type, payload)
      cached == CacheGet(b.store, key)
  IN IF Truthy(cached)
     THEN [b |-> b, result |-> cached, executed |-> FALSE]
     ELSE [b |-> [b EXCEPT !.store = CacheSet(@, key, op),
                           !.execs[key] = @ + 1],
           result |-> op, executed |-> TRUE]

BrokerCallers == {1, 2}

IdleCaller == [pc |-> "idle", key |-> _task_key("grep", Payload(<<>>, "")), result |-> NoResult]

NoBroker ==
  [store |-> [k \in BrokerKeys |-> NoResult],
   execs |-> [k \in BrokerKeys |-> 0],
   calls |-> <<>>,
   callers |-> [c \in BrokerCallers |-> IdleCaller]]

\* ------------------------------------------------------------- poll probe
\* The polling runners (LocalRunner.poll, local_runner.py:223-262) that
\* work on one session table, what each has picked up, the number of
\* answers submitted, the submission the stored pending_answer belongs to,
\* and the submissions whose answer was injected into the log.
PollerIds == {1, 2}

IdlePoller == [pc |-> "idle", answer |-> "", sub |-> 0]

NoPollers ==
  [proc |-> [p \in PollerIds |-> IdlePoller], submitted |-> 0, pending_sub |-> 0,
   injected |-> <<>>]

\* ----------------------------------------------------------- decoder probe
NoText == Text("empty", FALSE, TRUE, NoJson, FALSE, FALSE, <<>>, FALSE, FALSE, "", FALSE)

NoScript == [i \in 1..T2Attempts |-> [k |-> "none", action |-> NoJson]]

NoProbe == [hist |-> <<>>, text |-> NoText, t2 |-> NoScript]

\* ================================================================ state
VARIABLES
  runner,            \* "lambda" (lambda_entrypoint.py) or "local" (local_runner.py)
  creds,             \* GOOGLE_API_KEY is set (core/llm.py:10-14)
  repo,              \* the repository of the session can be cloned
  oracle,            \* how the generative oracle behaves during the session
  cp,                \* the checkpoint database the run-loop works on
  s3,                \* the brain file in S3 (lambda only)
  status,            \* scan table: status
  current_question,  \* scan table: current_question
  pending_answer,    \* scan table: pending_answer (local resume request)
  target_status,     \* targets table: status
  pc,                \* "idle", "stream" (inside the run-loop), "returned", "dead"
  entry,             \* the handler running or last run: "scan" or "resume"
  result,            \* what the handler returned: an HTTP status, "none"
  late,              \* time.time() - start_time > max_runtime
  done,              \* the checkpoint after the last completed step
  restart,           \* a re-invocation after a termination, until its first step: what it started from
  lastDecode,        \* the last decode call of the invocation: role, tier, counters
  lastRoute,         \* the last routing of a specialist message in the invocation
  susp,              \* the last suspension: kind, question, the node due next, calls run
  res,               \* the last resume: what it found and the first node run after it
  probe,             \* decoder probe: the tiers of its decode calls, the last T2 script and T3 text
  broker,            \* broker probe: the TaskBroker's cache, its executions and callers
  pollers            \* poll probe: the polling runners, the answers submitted and injected

vars == <<pollers, probe, broker, runner, creds, repo, oracle, cp, s3, status, current_question, pending_answer,
          target_status, pc, entry, result, late,
          done, restart, lastDecode, lastRoute, susp, res>>

\* "up": structured output works; "invalid": structured output fails schema
\* validation; "text": only free text comes back; "down": every call fails.
OracleModes == {"up", "invalid", "text", "down"}

NoDecode == [role |-> "none", pre_fuzzy |-> 0, exc |-> "none", tier |-> "none",
             fuzzy_parse_count |-> Absent, oracle_calls |-> 0, t2_attempts |-> 0,
             feedback |-> 0, calls |-> <<>>]

DecodeRecord(role, st, r) ==
  [role |-> role, pre_fuzzy |-> st.fuzzy_parse_count, exc |-> r.exc, tier |-> r.tier,
   fuzzy_parse_count |-> r.fuzzy_parse_count, oracle_calls |-> r.oracle_calls,
   t2_attempts |-> r.t2_attempts, feedback |-> r.feedback,
   calls |-> IF r.exc = "none" THEN r.msg.tool_calls ELSE <<>>]

NoRoute == [node |-> "none", calls |-> <<>>, result |-> "none", failed |-> FALSE]

NoSusp == [kind |-> "none", question |-> "", next |-> "none", values |-> NoValues,
           executed |-> {}]

NoRes == [kind |-> "none", pending |-> FALSE, snap |-> NoValues, next |-> "none",
          answer |-> "", appended |-> <<>>, first_node |-> "none", first_log |-> <<>>,
          went_back |-> FALSE]

\* graph.py:127-180: the position of a node in the chain of phases
PhaseRank(node) ==
  CASE node = "recon" -> 0
    [] node = "architect" -> 1
    [] node = "intelligence" -> 2
    [] node = "integrator" -> 3
    [] node = "validator" -> 4
    [] node = "reporter" -> 5
    [] OTHER -> 6

NoRestart == [happened |-> FALSE, kept |-> TRUE, continued |-> TRUE]

\* A re-invocation after a termination starts from checkpoint c: does c
\* keep the log of the steps completed before, and is the node due next
\* the one that was due?
RestartRecord(c) ==
  [happened |-> TRUE,
   kept |-> /\ Len(c.values.messages) >= Len(done.values.messages)
            /\ SubSeq(c.values.messages, 1, Len(done.values.messages))
                 = done.values.messages,
   continued |-> c.next = done.next]

Init ==
  /\ runner \in {"lambda", "local"}
  /\ creds \in BOOLEAN
  /\ repo \in BOOLEAN
  /\ oracle \in OracleModes
  /\ cp = NoCp
  /\ s3 = NoCp
  /\ status = "none"
  /\ current_question = ""
  /\ pending_answer = ""
  /\ target_status = "QUEUED"
  /\ pc = "idle"
  /\ entry = "scan"
  /\ result = "none"
  /\ late = FALSE
  /\ done = NoCp
  /\ restart = NoRestart
  /\ lastDecode = NoDecode
  /\ lastRoute = NoRoute
  /\ susp = NoSusp
  /\ res = NoRes
  /\ probe = NoProbe
  /\ broker = NoBroker
  /\ pollers = NoPollers

\* ------------------------------------------------------ run-loop pieces
Http(code) == IF runner = "lambda" THEN code ELSE "none"

\* The body of `for step in app.stream(...)` once a step has written newcp:
\* lambda_entrypoint.py:345-370 (timeout pause, only in handle_scan),
\* lambda_entrypoint.py:499-503, local_runner.py:185-190.
Yield(newcp) ==
  /\ cp' = newcp
  /\ done' = newcp
  /\ restart' = NoRestart
  /\ IF runner = "lambda" /\ entry = "scan" /\ late
     THEN /\ s3' = newcp
          /\ status' = "PAUSED"
          /\ pc' = "returned"
          /\ result' = "202"
          /\ susp' = [kind |-> "timeout", question |-> "", next |-> newcp.next,
                      values |-> newcp.values, executed |-> {}]
     ELSE /\ s3' = s3
          /\ status' = IF Len(newcp.values.messages) > 0 THEN "RUNNING" ELSE status
          /\ pc' = "stream"
          /\ result' = result
          /\ susp' = susp
  /\ UNCHANGED <<current_question, target_status>>

\* An exception leaves the graph: the except clauses and the finally block,
\* lambda_entrypoint.py:378-400 and 511-525, local_runner.py:203-213.
\* The step that raised wrote nothing.
Raise(exc, question) ==
  /\ cp' = cp
  /\ done' = done
  /\ restart' = NoRestart
  /\ s3' = IF runner = "lambda" THEN cp ELSE s3
  /\ pc' = "returned"
  /\ IF exc = "HumanInputNeeded"
     THEN /\ status' = "PAUSED"
          /\ current_question' = IF question # "" THEN question ELSE current_question
          /\ result' = Http("202")
          /\ susp' = [kind |-> "human", question |-> question,
                      next |-> route_tools(cp.values), values |-> cp.values,
                      executed |-> ExecutedBeforePause(Last(cp.values.messages).tool_calls,
                                                       runner)]
     ELSE /\ status' = "FAILED"
          /\ current_question' = current_question
          /\ result' = Http("500")
          /\ susp' = susp
  /\ UNCHANGED target_status

\* the first node executed after a resume and the log it ran on; whether a
\* node of a phase before the snapshot's active phase ran after the resume
NodeRan(node) ==
  LET back == PhaseRank(node) < PhaseRank(res.snap.active_specialist)
  IN res' = IF res.pending
            THEN [res EXCEPT !.pending = FALSE, !.first_node = node,
                             !.first_log = cp.values.messages, !.went_back = back]
            ELSE IF res.first_node # "none"
            THEN [res EXCEPT !.went_back = @ \/ back]
            ELSE res

Streaming(node) == pc = "stream" /\ cp.has /\ cp.next = node

\* The oracle behaviours one decode call distinguishes.
PadT2 == [i \in 1..T2Attempts |-> [k |-> "none", action |-> NoJson]]
PadT3 == [k |-> "raise", text |-> CHOOSE t \in Texts : t.len = "empty"]

Exhausting(sc) == \A i \in 1..T2Attempts : sc[i].k # "ok"

Oracles ==
  {[t1 |-> o, t2 |-> PadT2, t3 |-> PadT3] : o \in {x \in T1Outcomes : x.k = "ok"}}
  \cup {[t1 |-> o, t2 |-> sc, t3 |-> PadT3] :
          o \in {x \in T1Outcomes : x.k # "ok"}, sc \in {x \in T2Scripts : ~Exhausting(x)}}
  \cup {[t1 |-> o, t2 |-> sc, t3 |-> o3] :
          o \in {x \in T1Outcomes : x.k # "ok"}, sc \in {x \in T2Scripts : Exhausting(x)},
          o3 \in T3Outcomes}

\* The oracle behaviours drawn in whole runs: one per outcome of a decode
\* that leaves a different graph state (T1 is unavailable without the
\* optional outlines library, specialists.py:246).
RunActions ==
  {CallTool("grep_codebase", [patterns |-> <<"docker">>, file_path |-> ""]),
   CallTool("emergency_exit", NoArgs),
   AskHuman("q1"),
   FinishPhase("summary")}

RunTexts == {t \in Texts : ~t.json /\ t.len = "mid" /\ Len(t.keywords) <= 2
                            /\ (t.pattern_word \/ t.finish_word)}

Unavailable == [k |-> "unavailable", action |-> NoJson]

AllAttempts(o) == [i \in 1..T2Attempts |-> o]

RunOracles(mode) ==
  CASE mode = "up" ->
         {[t1 |-> Unavailable, t2 |-> [PadT2 EXCEPT ![1] = [k |-> "ok", action |-> a]],
           t3 |-> PadT3] : a \in RunActions}
    [] mode = "invalid" ->
         {[t1 |-> Unavailable,
           t2 |-> AllAttempts([k |-> "ValidationError", action |-> NoJson]), t3 |-> PadT3]}
    [] mode = "text" ->
         {[t1 |-> Unavailable, t2 |-> PadT2, t3 |-> [k |-> "text", text |-> t]] :
            t \in RunTexts}
    [] OTHER ->
         {[t1 |-> Unavailable,
           t2 |-> AllAttempts([k |-> "TransportError", action |-> NoJson]), t3 |-> PadT3]}

\* The validator responses drawn in whole runs are those that carry a tool
\* call; a response without one only repeats the validator step
\* (graph.py:58-60), which the router probe covers.
RunResponses(mode) ==
  IF mode = "down" THEN {r \in ValidatorResponses : r.k = "raise"}
  ELSE {r \in ValidatorResponses : r.k = "ok" /\ Len(r.calls) > 0}

\* rounds of tool results in a log: a tool message that follows a message
\* of another type opens a round
ToolRounds(st) ==
  Cardinality({i \in 2..Len(st.messages) :
                 st.messages[i].type = "tool" /\ st.messages[i - 1].type # "tool"})

\* answers injected into a log by resumes
Resumes(st) ==
  Cardinality({i \in 1..Len(st.messages) : st.messages[i].src = "resume"})

\* ============================================================== actions
\* lambda_entrypoint.py:270-345  handle_scan up to the first step
HandleScan ==
  /\ runner = "lambda"
  /\ pc \in {"idle", "dead"}
  /\ IF ~repo
     THEN /\ status' = "FAILED"
          /\ pc' = "returned"
          /\ result' = "500"
          /\ restart' = NoRestart
          /\ UNCHANGED <<cp, s3, done>>
     ELSE LET restore == should_restore_brain(target_status, s3.has)
              base == IF restore THEN s3 ELSE NoCp
              start == StreamInput(base, InitialState)
          IN /\ cp' = start
             /\ s3' = base
             /\ done' = start
             /\ restart' = IF pc = "dead" THEN RestartRecord(start) ELSE NoRestart
             /\ status' = "RUNNING"
             /\ pc' = "stream"
             /\ result' = "none"
  /\ entry' = "scan"
  /\ late' = FALSE
  /\ lastDecode' = NoDecode
  /\ lastRoute' = NoRoute
  /\ susp' = NoSusp
  /\ res' = NoRes
  /\ UNCHANGED <<pollers, probe, broker, runner, creds, repo, oracle, current_question, pending_answer, target_status>>

\* local_runner.py:249-261 and 94-161  poll picks a QUEUED target, run_scan starts
RunScan ==
  /\ runner = "local"
  /\ pc = "idle"
  /\ target_status = "QUEUED"
  /\ target_status' = "RUNNING"
  /\ IF ~repo
     THEN /\ status' = "FAILED"
          /\ pc' = "returned"
          /\ UNCHANGED <<cp, done>>
     ELSE /\ cp' = StreamInput(NoCp, InitialState)
          /\ done' = StreamInput(NoCp, InitialState)
          /\ status' = "RUNNING"
          /\ pc' = "stream"
  /\ entry' = "scan"
  /\ late' = FALSE
  /\ UNCHANGED <<pollers, probe, broker, runner, creds, repo, oracle, s3, current_question, pending_answer, result,
                 restart, lastDecode, lastRoute, susp, res>>

\* agent/nodes/recon.py:158-243
Recon ==
  /\ Streaming("recon")
  /\ LET st == cp.values
         values == [st EXCEPT !.messages = add_messages(@, <<HumanMessage("recon", "briefing")>>),
                              !.active_specialist = "architect"]
     IN Yield(Commit("recon", values))
  /\ NodeRan("recon")
  /\ UNCHANGED <<pollers, probe, broker, runner, creds, repo, oracle, pending_answer, entry, late,
                 lastDecode, lastRoute>>

\* The reducers applied to what a decode returned.
ApplyDecode(st, role, r) ==
  [st EXCEPT !.messages = add_messages(@, <<r.msg>>),
             !.active_specialist = role,
             !.fuzzy_parse_count = IF r.fuzzy_parse_count = Absent THEN @
                                   ELSE r.fuzzy_parse_count]

\* One step of a node that decodes: its update, its edge, the run-loop body.
DecodeStep(role, r) ==
  LET st == cp.values
      values == ApplyDecode(st, role, r)
  IN /\ lastDecode' = DecodeRecord(role, st, r)
     /\ IF r.exc # "none"
        THEN /\ Raise(r.exc, "")
             /\ lastRoute' = lastRoute
        ELSE /\ lastRoute' = [node |-> role, calls |-> r.msg.tool_calls,
                              result |-> EdgeResult(role, values),
                              failed |-> EdgeFails(role, values)]
             /\ IF EdgeFails(role, values)
                THEN Raise("KeyError", "")
                ELSE Yield(Commit(role, values))
     /\ NodeRan(role)
     /\ UNCHANGED <<pollers, probe, broker, runner, creds, repo, oracle, pending_answer, entry, late>>

\* specialists.py:433-440  architect_node, intelligence_node, integrator_node
Specialist(role) ==
  /\ Streaming(role)
  /\ \E orc \in RunOracles(oracle) :
       DecodeStep(role, run_specialist(cp.values, role, creds, orc))

\* validator.py:51-90
Validator ==
  /\ Streaming("validator")
  /\ \E resp \in RunResponses(oracle) :
       DecodeStep("validator", validator_node(cp.values, creds, resp))

\* graph.py:124 and 177  the tools node and its edge.  The registered
\* grep_codebase and read_file return a fixed string
\* (specialist_tools.py:10-45); the broker installed by set_broker
\* (search.py:8-15) is read by no tool, so the step leaves it untouched.
Tools ==
  /\ Streaming("tools")
  /\ ToolRounds(cp.values) < MaxToolRounds
  /\ LET st == cp.values
         r == tools_node(st, runner)
         values == [st EXCEPT !.messages = add_messages(@, r.msgs)]
     IN IF r.exc # "none"
        THEN Raise(r.exc, r.question)
        ELSE Yield(Commit("tools", values))
  /\ NodeRan("tools")
  /\ UNCHANGED <<pollers, probe, broker, runner, creds, repo, oracle, pending_answer, entry, late,
                 lastDecode, lastRoute>>

\* agent/nodes/reporter.py:231-322: an oracle failure is absorbed into a
\* report that records the error
Reporter ==
  /\ Streaming("reporter")
  /\ IF ~creds
     THEN Raise("ValueError", "")
     ELSE Yield(Commit("reporter",
                       [cp.values EXCEPT !.final_report =
                           IF oracle = "down" THEN "error_report" ELSE "report"]))
  /\ NodeRan("reporter")
  /\ UNCHANGED <<pollers, probe, broker, runner, creds, repo, oracle, pending_answer, entry, late,
                 lastDecode, lastRoute>>

\* lambda_entrypoint.py:372-376 and 505-509, local_runner.py:192-201:
\* the stream is exhausted, the graph is at END
Complete ==
  /\ Streaming(END)
  /\ status' = "COMPLETED"
  /\ target_status' = "COMPLETED"
  /\ pc' = "returned"
  /\ result' = Http("200")
  /\ s3' = IF runner = "lambda" THEN cp ELSE s3
  /\ UNCHANGED <<pollers, probe, broker, runner, creds, repo, oracle, cp, current_question, pending_answer, entry, late,
                 done, restart, lastDecode, lastRoute,
                 susp, res>>

\* Wall-clock time passes the execution deadline while a lambda handler is
\* inside its run-loop.  handle_scan reads the clock after every step
\* (lambda_entrypoint.py:272-273, 347); handle_resume's loop (499-503) has
\* no such test, but time passes there all the same.
Tick ==
  /\ pc = "stream"
  /\ runner = "lambda"
  /\ ~late
  /\ late' = TRUE
  /\ UNCHANGED <<pollers, probe, broker, runner, creds, repo, oracle, cp, s3, status, current_question, pending_answer,
                 target_status, pc, entry, result, done,
                 restart, lastDecode, lastRoute, susp, res>>

\* The process is terminated inside the run-loop: nothing of the except and
\* finally blocks runs, and the invocation's clock ends with it.  The
\* checkpoint database stays as the last completed step left it; the next
\* handle_scan does not read it (it starts from the brain file in S3).
\* Terminations are followed in scan invocations.
Kill ==
  /\ pc = "stream"
  /\ entry = "scan"
  /\ pc' = "dead"
  /\ late' = FALSE
  /\ UNCHANGED <<pollers, probe, broker, runner, creds, repo, oracle, cp, s3, status, current_question, pending_answer,
                 target_status, entry, result, done,
                 restart, lastDecode, lastRoute, susp, res>>

\* ---------------------------------------------------------------- resume
\* app.update_state(config, values, as_node): the values are written as if
\* as_node had written them (messages through the appending reducer) and the
\* edge out of as_node decides the node to run next.  Without as_node the
\* node that wrote last is taken.
UpdateState(c, msgs, pricing, as_node) ==
  LET node == IF as_node = "infer" THEN c.last_node ELSE as_node
      values == [c.values EXCEPT !.messages = add_messages(@, msgs),
                                 !.pricing_context = pricing]
  IN IF node \in {"none", START}
     THEN [exc |-> "InvalidUpdateError", cp |-> c]
     ELSE IF EdgeFails(node, values)
     THEN [exc |-> "KeyError", cp |-> c]
     ELSE [exc |-> "none", cp |-> Commit(node, values)]

AskHumanNames == {"ask_human", "ask_human_lambda"}

\* lambda_entrypoint.py:472-480: the first call named ask_human(_lambda), 0 if none
RECURSIVE FindAskHuman(_, _)
FindAskHuman(calls, i) ==
  IF i > Len(calls) THEN 0
  ELSE IF calls[i].name \in AskHumanNames THEN i
  ELSE FindAskHuman(calls, i + 1)

\* lambda_entrypoint.py:466-490: the message that carries the answer
LambdaAnswer(last_message, answer) ==
  LET i == IF NoToolCalls(last_message) THEN 0 ELSE FindAskHuman(last_message.tool_calls, 1)
  IN IF i = 0
     THEN [msg |-> HumanMessage("resume", answer), as_node |-> "infer"]
     ELSE [msg |-> ToolMessage("resume", last_message.tool_calls[i].id, answer),
           as_node |-> "tools"]

\* local_runner.py:169-178
LocalAnswer(last_message, answer) ==
  IF ~NoToolCalls(last_message)
  THEN [msg |-> ToolMessage("resume", last_message.tool_calls[1].id, answer),
        as_node |-> "tools"]
  ELSE [msg |-> HumanMessage("resume", answer), as_node |-> "infer"]

\* lambda_entrypoint.py:461-495: both update_state calls
LambdaInject(c, answer) ==
  LET inj == LambdaAnswer(Last(c.values.messages), answer)
      u1 == UpdateState(c, <<inj.msg>>, c.values.pricing_context, inj.as_node)
      u2 == UpdateState(u1.cp, <<>>, Append(c.values.pricing_context, answer), "infer")
  IN IF u1.exc # "none" THEN u1 ELSE u2

\* local_runner.py:164-180
LocalInject(c, answer) ==
  LET inj == LocalAnswer(Last(c.values.messages), answer)
  IN UpdateState(c, <<inj.msg>>, c.values.pricing_context, inj.as_node)

ResumeRecord(kind, c, after, answer) ==
  [kind |-> kind, pending |-> TRUE, snap |-> c.values, next |-> after.next,
   answer |-> answer,
   appended |-> SubSeq(after.values.messages, Len(c.values.messages) + 1,
                       Len(after.values.messages)),
   first_node |-> "none", first_log |-> <<>>, went_back |-> FALSE]

Answers == {"a1", ""}

\* lambda_entrypoint.py:416-525  handle_resume up to the first step
HandleResume ==
  /\ runner = "lambda"
  /\ pc \in {"idle", "returned"}
  /\ Resumes((IF s3.has THEN s3 ELSE cp).values) < MaxResumes
  /\ entry' = "resume"
  /\ late' = FALSE
  /\ \E answer \in Answers :
       LET loaded == IF s3.has THEN s3 ELSE cp
           kind == IF status = "PAUSED" THEN susp.kind ELSE "none"
           u == LambdaInject(loaded, answer)
       IN IF answer = ""
          THEN /\ result' = "400"
               /\ pc' = "returned"
               /\ UNCHANGED <<cp, s3, status, res>>
          ELSE IF ~repo
          THEN /\ result' = "500"
               /\ pc' = "returned"
               /\ status' = "RUNNING"
               /\ UNCHANGED <<cp, s3, res>>
          ELSE IF ~loaded.has
          THEN /\ result' = "404"
               /\ pc' = "returned"
               /\ status' = "RUNNING"
               /\ cp' = loaded
               /\ s3' = loaded
               /\ res' = res
          ELSE IF Len(loaded.values.messages) = 0 \/ u.exc # "none"
          THEN /\ result' = "500"
               /\ pc' = "returned"
               /\ status' = "FAILED"
               /\ cp' = loaded
               /\ s3' = loaded
               /\ res' = res
          ELSE /\ result' = "none"
               /\ pc' = "stream"
               /\ status' = "RUNNING"
               /\ cp' = u.cp
               /\ s3' = s3
               /\ res' = ResumeRecord(kind, loaded, u.cp, answer)
  /\ done' = IF pc' = "stream" THEN cp' ELSE done
  /\ lastDecode' = NoDecode
  /\ lastRoute' = NoRoute
  /\ UNCHANGED <<pollers, probe, broker, runner, creds, repo, oracle, current_question, pending_answer, target_status,
                 restart, susp>>

\* core/interface_adapter.py:67-88  invoke_backend(action = "resume") in local mode
SubmitAnswer ==
  /\ runner = "local"
  /\ pc = "returned"
  /\ Resumes(cp.values) < MaxResumes
  /\ \E answer \in Answers : pending_answer' = answer
  /\ status' = "RESUME_QUEUED"
  /\ res' = [NoRes EXCEPT !.kind = IF status = "PAUSED" THEN susp.kind ELSE "none"]
  /\ UNCHANGED <<pollers, probe, broker, runner, creds, repo, oracle, cp, s3, current_question, target_status, pc,
                 entry, result, late, done, restart, lastDecode,
                 lastRoute, susp>>

\* local_runner.py:228-240 and 94-180  poll finds RESUME_QUEUED, run_scan(is_resume)
PollResume ==
  /\ runner = "local"
  /\ pc = "returned"
  /\ status = "RESUME_QUEUED"
  /\ entry' = "resume"
  /\ late' = FALSE
  /\ LET u == LocalInject(cp, pending_answer)
     IN IF ~cp.has
        THEN /\ status' = "RUNNING"
             /\ pc' = "returned"
             /\ UNCHANGED <<cp, res>>
        ELSE IF Len(cp.values.messages) = 0 \/ u.exc # "none"
        THEN /\ status' = "FAILED"
             /\ pc' = "returned"
             /\ UNCHANGED <<cp, res>>
        ELSE /\ status' = "RUNNING"
             /\ pc' = "stream"
             /\ cp' = u.cp
             /\ res' = ResumeRecord(res.kind, cp, u.cp, pending_answer)
  /\ done' = IF pc' = "stream" THEN cp' ELSE done
  /\ lastDecode' = NoDecode
  /\ lastRoute' = NoRoute
  /\ UNCHANGED <<pollers, probe, broker, runner, creds, repo, oracle, s3, current_question, pending_answer,
                 target_status, result, restart, susp>>

Next ==
  \/ HandleScan
  \/ RunScan
  \/ Recon
  \/ \E role \in DecoderRoles : Specialist(role)
  \/ Validator
  \/ Tools
  \/ Reporter
  \/ Complete
  \/ Tick
  \/ Kill
  \/ HandleResume
  \/ SubmitAnswer
  \/ PollResume

Spec == Init /\ [][Next]_vars

\* ------------------------------------------------------- router probe
\* route_specialist applied to message logs that need not come from a run:
\* every log of up to MaxLogLen messages over the kinds the router tells
\* apart, under every active_specialist.
ProbeMessages ==
  {AIMessage("probe", <<>>),
   HumanMessage("probe", "text"),
   AIMessage("probe", <<ToolCall("grep_codebase", 1, "", <<"docker">>)>>),
   AIMessage("probe", <<ToolCall("complete_phase", 1, "", <<>>)>>)}

ProbeActive == Specialists \cup {"none"}

InitRouter ==
  /\ runner = "local"
  /\ creds = TRUE
  /\ repo = TRUE
  /\ oracle = "up"
  /\ \E log \in SeqsUpTo(ProbeMessages, MaxLogLen), active \in ProbeActive :
       cp = Checkpoint(StateValues(log, active, 0, <<>>, EmptyLedger, "none"),
                       "none", "none")
  /\ s3 = NoCp
  /\ status = "none"
  /\ current_question = ""
  /\ pending_answer = ""
  /\ target_status = "QUEUED"
  /\ pc = "probe"
  /\ entry = "scan"
  /\ result = "none"
  /\ late = FALSE
  /\ done = NoCp
  /\ restart = NoRestart
  /\ lastDecode = NoDecode
  /\ lastRoute = NoRoute
  /\ susp = NoSusp
  /\ res = NoRes
  /\ probe = NoProbe
  /\ broker = NoBroker
  /\ pollers = NoPollers

\* graph.py:16-96 called on the probe state
RouteProbe ==
  /\ pc = "probe"
  /\ pc' = "probed"
  /\ lastRoute' = [node |-> cp.values.active_specialist,
                   calls |-> IF Len(cp.values.messages) = 0 THEN <<>>
                             ELSE Last(cp.values.messages).tool_calls,
                   result |-> route_specialist(cp.values),
                   failed |-> route_specialist(cp.values)
                                \notin PathMap(cp.values.active_specialist)]
  /\ UNCHANGED <<pollers, probe, broker, runner, creds, repo, oracle, cp, s3, status, current_question, pending_answer,
                 target_status, entry, result, late, done,
                 restart, lastDecode, susp, res>>

NextRouter == RouteProbe

SpecRouter == InitRouter /\ [][NextRouter]_vars

\* ------------------------------------------------------ decoder probe
\* run_specialist called again and again on the state its results are
\* reduced into, each call with an oracle behaviour of its own: a success
\* of T1, of T2 on the first or on a later attempt, a schema failure, or
\* three failed attempts followed by any T3 outcome.  The log, which the
\* call reads only for the prompt, is held fixed.
DecodeOracles ==
  {[t1 |-> [k |-> "ok", action |-> FinishPhase("summary")], t2 |-> PadT2, t3 |-> PadT3]}
  \cup RunOracles("up")
  \cup {[t1 |-> [k |-> "failed", action |-> NoJson],
         t2 |-> <<[k |-> "none", action |-> NoJson],
                  [k |-> "TransportError", action |-> NoJson],
                  [k |-> "ok", action |-> AskHuman("q1")]>>,
         t3 |-> PadT3]}
  \cup RunOracles("invalid")
  \cup {[t1 |-> Unavailable,
         t2 |-> AllAttempts([k |-> "TransportError", action |-> NoJson]), t3 |-> o] :
          o \in T3Outcomes}

InitDecoder ==
  /\ runner = "local"
  /\ creds = TRUE
  /\ repo = TRUE
  /\ oracle = "up"
  /\ cp = Checkpoint(StateValues(<<HumanMessage("recon", "briefing")>>, "architect", 0,
                                 <<>>, EmptyLedger, "none"),
                     "architect", "recon")
  /\ s3 = NoCp
  /\ status = "RUNNING"
  /\ current_question = ""
  /\ pending_answer = ""
  /\ target_status = "QUEUED"
  /\ pc = "decode"
  /\ entry = "scan"
  /\ result = "none"
  /\ late = FALSE
  /\ done = NoCp
  /\ restart = NoRestart
  /\ lastDecode = NoDecode
  /\ lastRoute = NoRoute
  /\ susp = NoSusp
  /\ res = NoRes
  /\ probe = NoProbe
  /\ broker = NoBroker
  /\ pollers = NoPollers

\* specialists.py:251-397 called on the probe state; the fuzzy_parse_count
\* and active_specialist it returns are written into the state.  get_llm
\* reads GOOGLE_API_KEY from the environment at every call (core/llm.py:10),
\* so each call finds the credentials present or missing.
DecodeProbe ==
  /\ pc = "decode"
  /\ Len(probe.hist) < MaxDecodes
  /\ \E role \in DecoderRoles, key \in BOOLEAN :
     \E orc \in IF key THEN DecodeOracles ELSE {CHOOSE o \in DecodeOracles : TRUE} :
       \E st \in {cp.values} : \E r \in {run_specialist(st, role, key, orc)} :
          /\ creds' = key
          /\ lastDecode' = DecodeRecord(role, st, r)
          /\ probe' = [hist |-> Append(probe.hist, IF r.exc = "none" THEN r.tier ELSE "raise"),
                       text |-> IF r.tier \in {"T3", "T4"} THEN orc.t3.text ELSE NoText,
                       t2 |-> IF r.t2_attempts > 0 THEN orc.t2 ELSE NoScript]
          /\ IF r.exc # "none"
             THEN /\ pc' = "raised"
                  /\ cp' = cp
             ELSE /\ pc' = pc
                  /\ cp' = [cp EXCEPT !.values.active_specialist = role,
                                      !.values.fuzzy_parse_count =
                                         IF r.fuzzy_parse_count = Absent THEN @
                                         ELSE r.fuzzy_parse_count]
  /\ UNCHANGED <<pollers, broker, runner, repo, oracle, s3, status, current_question,
                 pending_answer, target_status, entry, result, late, done, restart,
                 lastRoute, susp, res>>

NextDecoder == DecodeProbe

SpecDecoder == InitDecoder /\ [][NextDecoder]_vars

\* -------------------------------------------------------- order probe
\* route_specialist applied to a last message with up to MaxCalls tool
\* calls, in every order, under every active_specialist.
OrderCallNames ==
  {"grep_codebase", "read_file", "complete_phase", "complete_validation", "emergency_exit"}

OrderCalls(names) == [i \in 1..Len(names) |-> ToolCall(names[i], i, "", <<>>)]

InitOrder ==
  /\ runner = "local"
  /\ creds = TRUE
  /\ repo = TRUE
  /\ oracle = "up"
  /\ \E names \in SeqsUpTo(OrderCallNames, MaxCalls), active \in ProbeActive :
       cp = Checkpoint(StateValues(<<HumanMessage("recon", "briefing"),
                                     AIMessage("probe", OrderCalls(names))>>,
                                   active, 0, <<>>, EmptyLedger, "none"),
                       "none", "none")
  /\ s3 = NoCp
  /\ status = "none"
  /\ current_question = ""
  /\ pending_answer = ""
  /\ target_status = "QUEUED"
  /\ pc = "probe"
  /\ entry = "scan"
  /\ result = "none"
  /\ late = FALSE
  /\ done = NoCp
  /\ restart = NoRestart
  /\ lastDecode = NoDecode
  /\ lastRoute = NoRoute
  /\ susp = NoSusp
  /\ res = NoRes
  /\ probe = NoProbe
  /\ broker = NoBroker
  /\ pollers = NoPollers

NextOrder == RouteProbe

SpecOrder == InitOrder /\ [][NextOrder]_vars

\* --------------------------------------------------------- step probe
\* A specialist node stepped on states that need not come from a run: every
\* log of up to MaxLogLen messages with or without a tool call, under every
\* active_specialist and every value of the fuzzy counter.
StepMessages ==
  {AIMessage("probe", <<>>),
   AIMessage("probe", <<ToolCall("grep_codebase", 1, "", <<"docker">>)>>)}

InitStep ==
  /\ runner = "local"
  /\ creds = TRUE
  /\ repo = TRUE
  /\ oracle = "up"
  /\ \E log \in SeqsUpTo(StepMessages, MaxLogLen), active \in ProbeActive,
        fuzzy \in 0..FuzzyBudget :
       cp = Checkpoint(StateValues(log, active, fuzzy, <<>>, EmptyLedger, "none"),
                       "none", "none")
  /\ s3 = NoCp
  /\ status = "RUNNING"
  /\ current_question = ""
  /\ pending_answer = ""
  /\ target_status = "QUEUED"
  /\ pc = "probe"
  /\ entry = "scan"
  /\ result = "none"
  /\ late = FALSE
  /\ done = NoCp
  /\ restart = NoRestart
  /\ lastDecode = NoDecode
  /\ lastRoute = NoRoute
  /\ susp = NoSusp
  /\ res = NoRes
  /\ probe = NoProbe
  /\ broker = NoBroker
  /\ pollers = NoPollers

\* One step of a specialist node on the probe state, as the graph runs it:
\* specialists.py:251-397, the reducers, then the node's conditional edge
\* (graph.py:132-164) on the state the step wrote.
StepProbe ==
  /\ pc = "probe"
  /\ \E role \in DecoderRoles, mode \in OracleModes :
     \E orc \in {o \in DecodeOracles : mode = "up"} \cup RunOracles(mode) :
       \E st \in {cp.values} : \E r \in {run_specialist(st, role, creds, orc)} :
          LET values == ApplyDecode(st, role, r)
          IN /\ lastDecode' = DecodeRecord(role, st, r)
             /\ IF r.exc # "none"
                THEN /\ pc' = "raised"
                     /\ cp' = cp
                     /\ lastRoute' = lastRoute
                ELSE /\ lastRoute' = [node |-> role, calls |-> r.msg.tool_calls,
                                      result |-> EdgeResult(role, values),
                                      failed |-> EdgeFails(role, values)]
                     /\ IF EdgeFails(role, values)
                        THEN pc' = "raised" /\ cp' = cp
                        ELSE pc' = "stepped" /\ cp' = Commit(role, values)
  /\ UNCHANGED <<pollers, probe, broker, runner, creds, repo, oracle, s3, status, current_question,
                 pending_answer, target_status, entry, result, late, done, restart,
                 susp, res>>

NextStep == StepProbe

SpecStep == InitStep /\ [][NextStep]_vars

\* ------------------------------------------------------- broker probe
\* One TaskBroker and the submit calls made on it, one after the other.
InitBroker ==
  /\ runner = "local"
  /\ creds = TRUE
  /\ repo = TRUE
  /\ oracle = "up"
  /\ cp = NoCp
  /\ s3 = NoCp
  /\ status = "none"
  /\ current_question = ""
  /\ pending_answer = ""
  /\ target_status = "QUEUED"
  /\ pc = "broker"
  /\ entry = "scan"
  /\ result = "none"
  /\ late = FALSE
  /\ done = NoCp
  /\ restart = NoRestart
  /\ lastDecode = NoDecode
  /\ lastRoute = NoRoute
  /\ susp = NoSusp
  /\ res = NoRes
  /\ probe = NoProbe
  /\ broker = NoBroker
  /\ pollers = NoPollers

BrokerCall(key, value, executed) == [key |-> key, result |-> value, executed |-> executed]

BrokerUnchanged ==
  UNCHANGED <<pollers, probe, runner, creds, repo, oracle, cp, s3, status, current_question,
              pending_answer, target_status, pc, entry, result, late, done, restart,
              lastDecode, lastRoute, susp, res>>

\* task_broker.py:62-92  one whole call of submit
Submit ==
  /\ pc = "broker"
  /\ Len(broker.calls) < MaxSubmits
  /\ \E t \in BrokerTasks, p \in BrokerPayloads :
       \E op \in OpResults(t, p) :
         \E r \in {submit(broker, t, p, op)} :
           broker' = [r.b EXCEPT !.calls = Append(@, BrokerCall(_task_key(t, p), r.result,
                                                                r.executed))]
  /\ BrokerUnchanged

NextBroker == Submit

SpecBroker == InitBroker /\ [][NextBroker]_vars

\* The same broker with two callers whose submit calls run at the same
\* time: a call is its cache lookup, the execution, the cache store.
InitBrokerRace ==
  /\ InitBroker

InFlight == Cardinality({c \in BrokerCallers : broker.callers[c].pc # "idle"})

\* task_broker.py:62-71  the key, the cache lookup, the early return
Lookup(c) ==
  /\ pc = "broker"
  /\ broker.callers[c].pc = "idle"
  /\ Len(broker.calls) + InFlight < MaxSubmits
  /\ \E t \in BrokerTasks, p \in BrokerPayloads :
       LET key == _task_key(t, p)
           cached == CacheGet(broker.store, key)
       IN IF Truthy(cached)
          THEN broker' = [broker EXCEPT !.calls = Append(@, BrokerCall(key, cached, FALSE))]
          ELSE broker' = [broker EXCEPT !.callers[c] =
                                          [pc |-> "execute", key |-> key, result |-> NoResult]]
  /\ BrokerUnchanged

\* task_broker.py:73-88  the operation runs
Execute(c) ==
  /\ pc = "broker"
  /\ broker.callers[c].pc = "execute"
  /\ LET key == broker.callers[c].key
     IN \E op \in OpResults(key[1], key[2]) :
          broker' = [broker EXCEPT !.execs[key] = @ + 1,
                                   !.callers[c] = [pc |-> "store", key |-> key, result |-> op]]
  /\ BrokerUnchanged

\* task_broker.py:90-92  the result is cached and returned
Store(c) ==
  /\ pc = "broker"
  /\ broker.callers[c].pc = "store"
  /\ LET key == broker.callers[c].key
         value == broker.callers[c].result
     IN broker' = [broker EXCEPT !.store = CacheSet(@, key, value),
                                 !.calls = Append(@, BrokerCall(key, value, TRUE)),
                                 !.callers[c] = IdleCaller]
  /\ BrokerUnchanged

NextBrokerRace ==
  \/ \E c \in BrokerCallers : Lookup(c)
  \/ \E c \in BrokerCallers : Execute(c)
  \/ \E c \in BrokerCallers : Store(c)

SpecBrokerRace == InitBrokerRace /\ [][NextBrokerRace]_vars

\* ------------------------------------------------------- poll probe
\* One session that a local scan left paused on ask_human("q1"), the
\* answers submitted for it through invoke_backend, and the polling runners
\* that share the session table and the checkpoint database.  Each access
\* to the table is a step of its own: the code takes no lock and makes no
\* conditional update.  The nodes a resumed run executes are those of Spec;
\* here a run is its writes to the session table.
PausedLog ==
  <<HumanMessage("recon", "briefing"),
    AIMessage("architect", <<ToolCall("ask_human", FreshId(2, 1), "q1", <<>>)>>)>>

InitPollRace ==
  /\ runner = "local"
  /\ creds = TRUE
  /\ repo = TRUE
  /\ oracle = "up"
  /\ cp = Checkpoint(StateValues(PausedLog, "architect", 0, <<>>, EmptyLedger, "none"),
                     "tools", "architect")
  /\ s3 = NoCp
  /\ status = "PAUSED"
  /\ current_question = "q1"
  /\ pending_answer = ""
  /\ target_status = "RUNNING"
  /\ pc = "poll"
  /\ entry = "scan"
  /\ result = "none"
  /\ late = FALSE
  /\ done = NoCp
  /\ restart = NoRestart
  /\ lastDecode = NoDecode
  /\ lastRoute = NoRoute
  /\ susp = [NoSusp EXCEPT !.kind = "human", !.question = "q1", !.next = "architect"]
  /\ res = NoRes
  /\ probe = NoProbe
  /\ broker = NoBroker
  /\ pollers = NoPollers

PollUnchanged ==
  UNCHANGED <<probe, broker, runner, creds, repo, oracle, s3, current_question,
              target_status, pc, entry, result, late, done, restart, lastDecode,
              lastRoute, susp, res>>

\* core/interface_adapter.py:67-88  invoke_backend(action = "resume"): one
\* update_item that writes status and pending_answer
QueueAnswer ==
  /\ pc = "poll"
  /\ pollers.submitted < MaxAnswers
  /\ \E answer \in {"a1", "a2"} : pending_answer' = answer
  /\ status' = "RESUME_QUEUED"
  /\ pollers' = [pollers EXCEPT !.submitted = @ + 1, !.pending_sub = pollers.submitted + 1]
  /\ cp' = cp
  /\ PollUnchanged

\* local_runner.py:228-239  poll scans the table for RESUME_QUEUED and reads
\* the pending answer of the session it found
PollFind(p) ==
  /\ pc = "poll"
  /\ pollers.proc[p].pc = "idle"
  /\ status = "RESUME_QUEUED"
  /\ pollers' = [pollers EXCEPT !.proc[p] = [pc |-> "found", answer |-> pending_answer,
                                              sub |-> pollers.pending_sub]]
  /\ UNCHANGED <<cp, status, pending_answer>>
  /\ PollUnchanged

\* local_runner.py:94-112  run_scan(is_resume = True) writes RUNNING
PollMark(p) ==
  /\ pc = "poll"
  /\ pollers.proc[p].pc = "found"
  /\ status' = "RUNNING"
  /\ pollers' = [pollers EXCEPT !.proc[p].pc = "marked"]
  /\ UNCHANGED <<cp, pending_answer>>
  /\ PollUnchanged

\* local_runner.py:162-180  the answer is written into the checkpoint
PollInject(p) ==
  /\ pc = "poll"
  /\ pollers.proc[p].pc = "marked"
  /\ LET u == LocalInject(cp, pollers.proc[p].answer)
     IN IF u.exc # "none"
        THEN /\ status' = "FAILED"
             /\ cp' = cp
             /\ pollers' = [pollers EXCEPT !.proc[p] = IdlePoller]
        ELSE /\ status' = status
             /\ cp' = u.cp
             /\ pollers' = [pollers EXCEPT !.proc[p].pc = "stream",
                                           !.injected = Append(@, pollers.proc[p].sub)]
  /\ pending_answer' = pending_answer
  /\ PollUnchanged

\* local_runner.py:182-190  a step of the resumed run writes RUNNING
PollStep(p) ==
  /\ pc = "poll"
  /\ pollers.proc[p].pc = "stream"
  /\ status' = "RUNNING"
  /\ pollers' = [pollers EXCEPT !.proc[p].pc = "stepped"]
  /\ UNCHANGED <<cp, pending_answer>>
  /\ PollUnchanged

\* local_runner.py:192-213  the run ends: completed, or paused again on a
\* further question
PollEnd(p) ==
  /\ pc = "poll"
  /\ pollers.proc[p].pc = "stepped"
  /\ \E s \in {"COMPLETED", "PAUSED"} : status' = s
  /\ pollers' = [pollers EXCEPT !.proc[p] = IdlePoller]
  /\ UNCHANGED <<cp, pending_answer>>
  /\ PollUnchanged

NextPollRace ==
  \/ QueueAnswer
  \/ \E p \in PollerIds : PollFind(p)
  \/ \E p \in PollerIds : PollMark(p)
  \/ \E p \in PollerIds : PollInject(p)
  \/ \E p \in PollerIds : PollStep(p)
  \/ \E p \in PollerIds : PollEnd(p)

SpecPollRace == InitPollRace /\ [][NextPollRace]_vars

\* ================================================================ claims
\* C1: with valid credentials and every oracle call failing, a scan is not
\* aborted: the four specialists hand over in turn, the reporter runs and
\* the graph reaches END, so a scan invocation that made a decode call and
\* returned without a pause has completed.
C1_Original ==
  (oracle = "down" /\ creds /\ entry = "scan" /\ pc = "returned" /\ cp.has
     /\ lastDecode.role # "none" /\ status # "PAUSED")
  => (status = "COMPLETED" /\ cp.next = END)

\* C2: a decode call of a specialist returns exactly one message with
\* exactly one tool call; the only exception that escapes it is the
\* configuration error of missing credentials.
C2_Original ==
  lastDecode.role \in DecoderRoles
  => \/ lastDecode.exc = "none" /\ Len(lastDecode.calls) = 1
     \/ lastDecode.exc = "ValueError" /\ ~creds

\* C3: when the last five messages of the log carry no tool call, the
\* router returns the fixed successor of the active phase, whatever the
\* rest of the log contains; it never stays in the phase.
C3_LoopGuardForcesSuccessor ==
  LET log == cp.values.messages
      p == cp.values.active_specialist
      fiveIdle == /\ Len(log) >= 5
                  /\ \A i \in (Len(log) - 4)..Len(log) :
                       log[i].type # "ai" \/ log[i].tool_calls = <<>>
      succ == [architect |-> "intelligence", intelligence |-> "integrator",
               integrator |-> "validator", validator |-> "reporter"]
  IN (pc = "probed" /\ p \in Specialists /\ fiveIdle)
     => (lastRoute.result = succ[p] /\ lastRoute.result # p)

C3_Witness ==
  LET log == cp.values.messages
  IN /\ pc = "probed"
     /\ cp.values.active_specialist = "integrator"
     /\ Len(log) = 6
     /\ log[1].tool_calls # <<>>
     /\ \A i \in 2..6 : log[i].tool_calls = <<>>
     /\ lastRoute.result = "validator"

\* C4: a specialist message that carries complete_phase is routed to the
\* fixed successor of its phase, never further and never back, and the
\* edge accepts the target.
C4_CompletePhaseAdvances ==
  LET succ == [architect |-> "intelligence", intelligence |-> "integrator",
               integrator |-> "validator", validator |-> "reporter"]
  IN (/\ lastRoute.node \in Specialists
      /\ \E i \in 1..Len(lastRoute.calls) : lastRoute.calls[i].name = "complete_phase")
     => (lastRoute.result = succ[lastRoute.node] /\ ~lastRoute.failed)

C4_Witness ==
  /\ lastRoute.node = "intelligence"
  /\ Len(lastRoute.calls) = 1
  /\ lastRoute.calls[1].name = "complete_phase"
  /\ lastRoute.result = "integrator"
  /\ pc = "stream"
  /\ cp.next = "integrator"

\* C5: a specialist message whose signal is emergency_exit is routed to the
\* reporter and the run does not fail on it.
C5_Original ==
  (/\ lastRoute.node \in Specialists
   /\ Len(lastRoute.calls) > 0
   /\ lastRoute.calls[1].name = "emergency_exit")
  => (lastRoute.result = "reporter" /\ ~lastRoute.failed /\ status # "FAILED")

\* C6: a decode step that produced AskHuman suspends the run: the tools
\* node never answers the ask_human call of a specialist with a tool
\* result and lets the run go on.
C6_Original ==
  LET log == cp.values.messages
  IN \A i \in 1..Len(log) :
       (log[i].type = "tool" /\ log[i].src = "tools")
       => ~ \E j \in 1..(i - 1) :
              /\ log[j].src \in DecoderRoles
              /\ \E k \in 1..Len(log[j].tool_calls) :
                   /\ log[j].tool_calls[k].name = "ask_human"
                   /\ log[j].tool_calls[k].id = log[i].tool_call_id

\* C7: after the resume of a session paused for a human question the first
\* node executed is the snapshot's active phase, it runs on a log that ends
\* with the answer, and no node of an earlier phase runs afterwards.
C7_ResumeContinuesActivePhase ==
  (res.kind = "human" /\ res.first_node # "none")
  => /\ res.first_node = res.snap.active_specialist
     /\ Len(res.first_log) = Len(res.snap.messages) + 1
     /\ Last(res.first_log).src = "resume"
     /\ Last(res.first_log).content = res.answer
     /\ ~res.went_back

C7_Witness ==
  /\ res.kind = "human"
  /\ res.first_node = "intelligence"
  /\ res.snap.active_specialist = "intelligence"
  /\ Last(res.first_log).content = "a1"
  /\ cp.last_node = "intelligence"

\* C8: the resume of a session paused for a human question appends exactly
\* one answer message: a tool result bound to the id of the pending
\* ask-human call when the last message has one, a plain message otherwise.
C8_Original ==
  LET last == Last(res.snap.messages)
      asks == {i \in 1..Len(last.tool_calls) : last.tool_calls[i].name \in AskHumanNames}
  IN (res.kind = "human" /\ (res.pending \/ res.first_node # "none"))
     => /\ Len(res.appended) = 1
        /\ IF asks # {}
           THEN /\ res.appended[1].type = "tool"
                /\ \E i \in asks : res.appended[1].tool_call_id = last.tool_calls[i].id
           ELSE res.appended[1].type = "human"

\* C9: a run that was suspended and resumed goes on with the node that was
\* due when it was suspended, on the same ledger.
C9_Original ==
  (res.kind \in {"human", "timeout"} /\ (res.pending \/ res.first_node # "none"))
  => (res.next = susp.next /\ res.snap.ledger = susp.values.ledger)

\* C10: when the process is terminated the durable checkpoint holds the
\* state as it was after the last completed step, and a re-invocation
\* continues from that step: it keeps the completed steps and does not
\* start again from recon.
C10_Original ==
  /\ (pc = "dead" /\ Len(done.values.messages) > 0)
     => LET durable == IF runner = "lambda" THEN s3 ELSE cp
        IN durable.has /\ durable.values = done.values
  /\ restart.happened => (restart.kept /\ restart.continued)

\* C11: a resume request that carries an answer, for a session that has no
\* checkpoint, fails with the not-found outcome (HTTP 404 from the lambda
\* handler, a failed scan from the local runner) and executes no graph node.
C11_Original ==
  (/\ entry = "resume" /\ pc = "returned" /\ ~cp.has /\ ~s3.has
   /\ (runner = "lambda" => repo /\ result # "400")
   /\ (runner = "local" => pending_answer # ""))
  => /\ res.first_node = "none"
     /\ IF runner = "lambda" THEN result = "404" ELSE status = "FAILED"

\* C12: when the three decode calls before a decode call were all resolved
\* by T3, that call returns the forced finish without an oracle call; and
\* a decode call takes the guard's forced finish only then.
C12_Original ==
  LET h == probe.hist
      n == Len(h)
      three == n >= 4 /\ \A i \in (n - 3)..(n - 1) : h[i] = "T3"
  IN n > 0 =>
       /\ three => (h[n] = "guard" /\ lastDecode.oracle_calls = 0
                      /\ CallNames([tool_calls |-> lastDecode.calls]) = {"complete_phase"})
       /\ h[n] = "guard" => three

\* C13: after a decode call that succeeded in T1 or T2 the fuzzy counter of
\* the resulting state is 0, whatever it was before the call.
C13_Original ==
  (pc = "decode" /\ lastDecode.tier \in {"T1", "T2"} /\ lastDecode.exc = "none")
  => cp.values.fuzzy_parse_count = 0

\* C14: when T3 resolves a decode call with a CallTool, the tool it names
\* is the search tool or the read tool, whatever the oracle's text names.
C14_Original ==
  LET a == smart_fuzzy_parse(probe.text, lastDecode.role).action
  IN (Len(probe.hist) > 0 /\ Last(probe.hist) = "T3" /\ a.action_type = "call_tool")
     => /\ a.tool_name \in {"grep_codebase", "read_file"}
        /\ \A i \in 1..Len(lastDecode.calls) :
             lastDecode.calls[i].name \in {"grep_codebase", "read_file"}

\* C15: a free text that is no JSON, mentions searching and contains
\* vocabulary keywords is resolved by T3 to a call of the search tool whose
\* patterns are exactly the keywords occurring in the text.
C15_Original ==
  LET t == probe.text
      a == smart_fuzzy_parse(t, lastDecode.role).action
  IN (/\ Len(probe.hist) > 0 /\ Last(probe.hist) = "T3"
      /\ ~t.json /\ t.grep_word /\ Len(t.keywords) > 0)
     => /\ a.action_type = "call_tool"
        /\ a.tool_name = "grep_codebase"
        /\ a.tool_args.patterns = t.keywords
        /\ lastDecode.calls = <<ToolCall("grep_codebase", lastDecode.calls[1].id, "", t.keywords)>>

\* C16: two submit calls made one after the other with the same task type
\* and payload execute the operation once and return equal results, for
\* every result the operation can return.
C16_SubmitTwiceExecutesOnce ==
  \A i \in 1..Len(broker.calls) : \A j \in 1..Len(broker.calls) :
     (i < j /\ broker.calls[i].key = broker.calls[j].key)
     => /\ broker.calls[j].result = broker.calls[i].result
        /\ ~broker.calls[j].executed
        /\ broker.execs[broker.calls[i].key] = 1

C16_Witness ==
  /\ Len(broker.calls) = 2
  /\ broker.calls[1].key = _task_key("grep", Payload(<<"docker">>, ""))
  /\ broker.calls[2].key = broker.calls[1].key
  /\ broker.calls[1].executed
  /\ broker.calls[1].result.found = ""
  /\ broker.calls[2].result = broker.calls[1].result
  /\ broker.execs[broker.calls[1].key] = 1

\* C17: over the lifetime of a broker the operation is executed at most
\* once per cache key, also when callers submit the same task at the same
\* time.
C17_Original ==
  \A k \in BrokerKeys : broker.execs[k] <= 1

\* C18: when the last message carries no tool call and fewer than five
\* specialist turns without a tool call have occurred since the last
\* message with one, the router returns the active phase; tool results and
\* human messages are not counted as turns.
C18_Original ==
  LET log == cp.values.messages
      p == cp.values.active_specialist
      withCall == {i \in 1..Len(log) : ~NoToolCalls(log[i])}
      from == IF withCall = {} THEN 0 ELSE CHOOSE i \in withCall : \A j \in withCall : j <= i
      turns == Cardinality({i \in (from + 1)..Len(log) : log[i].type = "ai"})
  IN (/\ pc = "probed" /\ p \in Specialists /\ Len(log) > 0
      /\ NoToolCalls(Last(log)) /\ turns < LoopThreshold)
     => lastRoute.result = p

\* C19: every tool call in the message log names a tool of the fixed
\* allow-list (the registry and the completion signals), and every call of
\* the search tool carries a non-empty list of patterns; this holds for
\* the messages of all four specialist phases.
C19_Original ==
  LET log == cp.values.messages
      AllowList == {"grep_codebase", "read_file", "check_price_knowledge", "calculate_cost",
                    "complete_validation", "ask_human", "ask_human_lambda",
                    "complete_phase", "emergency_exit"}
  IN \A i \in 1..Len(log) :
       log[i].src \in Specialists
       => \A k \in 1..Len(log[i].tool_calls) :
            /\ log[i].tool_calls[k].name \in AllowList
            /\ log[i].tool_calls[k].name = "grep_codebase"
                 => Len(log[i].tool_calls[k].patterns) > 0

\* C20: in every run, a run started by resume included, once wall-clock
\* runtime has passed the execution deadline, the step in progress is the
\* last one: when it completes the run-loop suspends with the timeout pause
\* and goes on to no further step.
C20_Original ==
  [][(pc = "stream" /\ late /\ pc' # "dead" /\ done' # done)
       => (pc' = "returned" /\ status' = "PAUSED" /\ susp'.kind = "timeout")]_vars

\* C21: a resume request without an answer on a session paused for timeout
\* is accepted: no error outcome, no message appended to the log, and the
\* run continues from the node recorded in the checkpoint.  The request
\* without an answer is the one handle_resume leaves before its first write
\* of the status (lambda_entrypoint.py:423-426).
C21_Original ==
  [][(/\ runner = "lambda" /\ pc = "returned"
      /\ status = "PAUSED" /\ susp.kind = "timeout"
      /\ entry' = "resume" /\ status' = status)
       => (/\ pc' = "stream"
           /\ result' \notin {"400", "404", "500"}
           /\ cp'.values.messages = s3.values.messages
           /\ cp'.next = susp.next)]_vars

\* C22: a run suspends only at two points: for a human question, on a
\* message that carries the ask-human call and before any tool call of that
\* message has been executed, or for timeout between two steps; a
\* suspended run never has the tool calls of one message partly executed.
C22_Original ==
  (pc = "returned" /\ status = "PAUSED" /\ susp.kind # "none")
  => \/ /\ susp.kind = "human"
        /\ PausingCalls(Last(susp.values.messages).tool_calls, runner) # {}
        /\ susp.executed = {}
     \/ /\ susp.kind = "timeout"
        /\ susp.executed = {}

\* C23: when the credentials are missing a specialist decode call raises
\* the configuration error at once: it makes no oracle call, returns no
\* message, tries no later tier, and the run it belongs to ends as failed
\* (and stays so until a resume is requested).
C23_Original ==
  (lastDecode.role \in DecoderRoles /\ ~creds)
  => /\ lastDecode.exc = "ValueError"
     /\ lastDecode.oracle_calls = 0
     /\ lastDecode.t2_attempts = 0
     /\ lastDecode.calls = <<>>
     /\ lastDecode.tier \notin {"guard", "T2", "T3", "T4"}
     /\ pc \in {"raised", "returned"}
     /\ (pc = "returned" /\ status # "RESUME_QUEUED") => status = "FAILED"

\* C24: the stored status of a session is always one of RUNNING,
\* PAUSED_HUMAN, PAUSED_TIMEOUT, COMPLETED, FAILED, and a pause for a human
\* question is stored with another status than a pause for timeout.
C24_Original ==
  status # "none"
  => /\ status \in {"RUNNING", "PAUSED_HUMAN", "PAUSED_TIMEOUT", "COMPLETED", "FAILED"}
     /\ (pc = "returned" /\ result = Http("202") /\ susp.kind = "human")
          => status = "PAUSED_HUMAN"
     /\ (pc = "returned" /\ result = Http("202") /\ susp.kind = "timeout")
          => status = "PAUSED_TIMEOUT"

\* C25: the status of a session is COMPLETED only when the graph has
\* reached END in that session, after the reporter has run; an invocation
\* that suspended for a human question, paused for timeout or failed has
\* not recorded COMPLETED.
C25_CompletedOnlyAtEnd ==
  status = "COMPLETED"
  => /\ cp.has /\ cp.next = END
     /\ cp.last_node = "reporter"
     /\ cp.values.final_report # "none"
     /\ pc = "returned"
     /\ result \notin {"202", "404", "500"}

C25_Witness ==
  /\ status = "COMPLETED"
  /\ entry = "resume"
  /\ cp.next = END
  /\ cp.values.final_report = "report"
  /\ res.first_node = "validator"

\* C26: the workflow state of a session only accumulates: over every step
\* of the model (node step, suspension, resume, re-invocation) the message
\* log before the step is a prefix of the log after it, and a ledger that
\* held content is not reset to its empty default.
C26_Original ==
  [][cp.has =>
       /\ cp'.has
       /\ Len(cp'.values.messages) >= Len(cp.values.messages)
       /\ SubSeq(cp'.values.messages, 1, Len(cp.values.messages)) = cp.values.messages
       /\ cp.values.ledger # EmptyLedger => cp'.values.ledger # EmptyLedger]_vars

\* C27: in every run (a scan invocation and the resumes that continue it)
\* the nodes other than tools execute in chain order: recon runs first and
\* is followed by architect, active_specialist never moves back to an
\* earlier phase, the reporter runs at most once and is followed by END,
\* and nothing runs after END.
C27_Original ==
  [][pc \notin {"idle", "dead"} =>
      /\ (pc = "stream" /\ cp.next = "recon" /\ done' # done) => cp'.next = "architect"
      /\ (cp.has /\ cp'.has)
           => PhaseRank(cp'.values.active_specialist) >= PhaseRank(cp.values.active_specialist)
      /\ (pc = "stream" /\ cp.next = "reporter" /\ done' # done)
           => (cp.values.final_report = "none" /\ cp'.next = END)
      /\ (cp.has /\ cp.next = END) => (cp'.has /\ cp'.next = END)]_vars

\* C28: every resume that supplies an answer appends the raw answer to the
\* free-text context buffer and keeps what the buffer held, in every resume
\* path, so the nodes that run after the resume read a buffer that contains
\* every answer given so far, in the order given.
C28_Original ==
  (entry = "resume" /\ res.answer # "" /\ (res.pending \/ res.first_node # "none"))
  => cp.values.pricing_context = Append(res.snap.pricing_context, res.answer)

\* C29: one decode call makes at most 3 T2 attempts; an attempt that fails
\* schema validation adds one message to the context of the next attempt,
\* an attempt that fails in transport or returns nothing is repeated on the
\* same context, no failure of an attempt ends the call, and after the
\* third failed attempt the decoder goes on to T3.
C29_Original ==
  LET n == lastDecode.t2_attempts
      sc == probe.t2
      invalid == {i \in 1..n : sc[i].k = "ValidationError"}
      failed == {i \in 1..n : sc[i].k # "ok"}
  IN (pc \in {"decode", "raised"} /\ n > 0)
     => /\ n <= T2Attempts
        /\ lastDecode.exc = "none"
        /\ lastDecode.feedback = Cardinality(invalid)
        /\ (failed = 1..T2Attempts) <=> (lastDecode.tier \in {"T3", "T4"})

\* C30: when the message a specialist phase P has just written carries tool
\* calls none of which is a completion or emergency signal, the router
\* returns tools, and the step of the tools node that follows makes P, the
\* phase that issued the calls, the next node; for each of the four phases.
C30_ToolsReturnToIssuer ==
  [][/\ (/\ lastRoute' # lastRoute
         /\ lastRoute'.node \in Specialists
         /\ lastRoute'.calls # <<>>
         /\ \A i \in 1..Len(lastRoute'.calls) :
              lastRoute'.calls[i].name
                \notin {"complete_phase", "complete_validation", "emergency_exit"})
          => (lastRoute'.result = "tools" /\ ~lastRoute'.failed)
     /\ (pc = "stream" /\ cp.has /\ cp.next = "tools" /\ done' # done)
          => (/\ Last(cp.values.messages).src \in Specialists
              /\ cp'.next = Last(cp.values.messages).src
              /\ cp'.last_node = "tools")]_vars

C30_Witness ==
  /\ pc = "stream"
  /\ cp.last_node = "tools"
  /\ cp.next = "validator"
  /\ Last(cp.values.messages).type = "tool"
  /\ lastRoute.node = "validator"
  /\ lastRoute.result = "tools"

\* C31: a step of a specialist phase P whose decode ends in the forced
\* finish (tier T4, or the recursion guard) makes the router return P's
\* fixed successor, a target P has an edge to, and leaves the successor as
\* the node due next, whatever number of tool-call-free messages trailed
\* the log before the step: one phase further, never two, never P again.
C31_ForcedFinishAdvancesOnePhase ==
  [][(/\ pc = "probe"
      /\ lastDecode' # lastDecode
      /\ lastDecode'.tier \in {"T4", "guard"})
       => (/\ lastDecode'.role \in DecoderRoles
           /\ lastRoute'.node = lastDecode'.role
           /\ Len(lastRoute'.calls) = 1
           /\ lastRoute'.result = ForcedSuccessor(lastDecode'.role)
           /\ ~lastRoute'.failed
           /\ pc' = "stepped"
           /\ cp'.next = ForcedSuccessor(lastDecode'.role)
           /\ cp'.last_node = lastDecode'.role
           /\ PhaseRank(cp'.next) = PhaseRank(lastDecode'.role) + 1
           /\ cp'.values.fuzzy_parse_count = 0
           /\ SubSeq(cp'.values.messages, 1, Len(cp.values.messages))
                = cp.values.messages)]_vars

\* The forced finish taken in intelligence on a log that 5 or more
\* tool-call-free messages trail, the last phase written being architect:
\* the state the router's loop guard hands to intelligence.
C31_Witness ==
  /\ pc = "stepped"
  /\ lastDecode.role = "intelligence"
  /\ lastDecode.tier = "T4"
  /\ cp.last_node = "intelligence"
  /\ cp.next = "integrator"
  /\ Len(cp.values.messages) > LoopThreshold
  /\ non_tool_count(SubSeq(cp.values.messages, 1, Len(cp.values.messages) - 1))
       >= LoopThreshold

\* C32: every search lookup that the tools node has executed and answered
\* in the log was dispatched through submit of the run's broker: the broker
\* has a call on record for each of them.
C32_Original ==
  LET log == cp.values.messages
      lookups == {i \in 1..Len(log) :
                    /\ log[i].type = "tool"
                    /\ log[i].src = "tools"
                    /\ \E j \in 1..(i - 1) : \E c \in 1..Len(log[j].tool_calls) :
                         /\ log[j].tool_calls[c].id = log[i].tool_call_id
                         /\ log[j].tool_calls[c].name = "grep_codebase"}
  IN cp.has => Len(broker.calls) >= Cardinality(lookups)

\* C33: whenever a specialist or the reporter is the node about to run,
\* every tool call of the last message with tool calls that is not a
\* completion or emergency signal has a tool result after it in the log,
\* also when that message carries a signal next to ordinary calls.
C33_Original ==
  LET log == cp.values.messages
      Signals == {"complete_phase", "complete_validation", "emergency_exit"}
      issuing == {j \in 1..Len(log) : ~NoToolCalls(log[j])}
      last == CHOOSE j \in issuing : \A k \in issuing : k <= j
      answered(c) == \E i \in (last + 1)..Len(log) :
                        log[i].type = "tool" /\ log[i].tool_call_id = c.id
  IN (/\ pc = "stream"
      /\ cp.has
      /\ cp.next \in Specialists \cup {"reporter"}
      /\ issuing # {})
     => \A c \in 1..Len(log[last].tool_calls) :
          log[last].tool_calls[c].name \notin Signals => answered(log[last].tool_calls[c])

\* C34: the value the router returned for the step of a specialist node is
\* one of the targets that node's conditional edge declares.
C34_Original ==
  lastRoute.node \in Specialists => lastRoute.result \in PathMap(lastRoute.node)

C36_Original ==
  [][(/\ pc = "returned"
      /\ status \in {"RUNNING", "COMPLETED", "FAILED"}
      /\ (entry' = "resume" \/ status' = "RESUME_QUEUED"))
       => (/\ status' = status
           /\ cp'.values.messages = cp.values.messages
           /\ pc' = "returned")]_vars

\* C37: a resume that is refused because an input is missing (400) or
\* because the session has no checkpoint (404 on lambda, "no snapshot" in
\* the local runner) leaves status, checkpoint and stored brain as they
\* were: in particular it does not set the status to RUNNING.
C37_Original ==
  [][/\ (/\ runner = "lambda"
         /\ pc \in {"idle", "returned"}
         /\ entry' = "resume"
         /\ result' \in {"400", "404"})
          => (status' = status /\ cp' = cp /\ s3' = s3)
     /\ (/\ runner = "local"
         /\ pc = "returned"
         /\ status = "RESUME_QUEUED"
         /\ ~cp.has
         /\ entry' = "resume")
          => (status' # "RUNNING" /\ cp' = cp)]_vars

\* C38: the session record holds a pending question exactly when the
\* session is paused for a human answer; a session that is running, paused
\* for timeout, completed or failed holds none (a session whose answer is
\* queued but not yet taken up is left out).
C38_Original ==
  status \notin {"none", "RESUME_QUEUED"}
  => (current_question # "" <=> (status = "PAUSED" /\ susp.kind = "human"))

\* C39: at no time are two resumes of the session under way, no submitted
\* answer is injected into the log twice, and once the runners are idle and
\* nothing is queued every submitted answer has been injected.
C39_Original ==
  LET running == {p \in PollerIds : pollers.proc[p].pc \in {"marked", "stream", "stepped"}}
      inj == pollers.injected
  IN /\ Cardinality(running) <= 1
     /\ \A i, j \in 1..Len(inj) : i # j => inj[i] # inj[j]
     /\ (/\ \A p \in PollerIds : pollers.proc[p].pc = "idle"
         /\ status # "RESUME_QUEUED")
          => \A k \in 1..pollers.submitted : \E i \in 1..Len(inj) : inj[i] = k

\* C40: the fuzzy counter of the workflow state is always between 0 and 3;
\* no decode call is entered with a value above 3; a decode resolved by T3
\* leaves the counter one above the value it was entered with, and the
\* forced finish (T4 or the recursion guard) leaves it at 0.
C40_FuzzyCounterBounded ==
  /\ cp.values.fuzzy_parse_count \in 0..FuzzyBudget
  /\ lastDecode.role \in DecoderRoles
       => /\ lastDecode.pre_fuzzy \in 0..FuzzyBudget
          /\ lastDecode.tier = "guard" <=> lastDecode.pre_fuzzy = FuzzyBudget
          /\ lastDecode.tier = "T3"
               => /\ lastDecode.fuzzy_parse_count = lastDecode.pre_fuzzy + 1
                  /\ cp.values.fuzzy_parse_count = lastDecode.pre_fuzzy + 1
          /\ lastDecode.tier \in {"T4", "guard"}
               => /\ lastDecode.fuzzy_parse_count = 0
                  /\ cp.values.fuzzy_parse_count = 0

\* Three decodes resolved by T3 have taken the counter to 3 and the call
\* after them was ended by the recursion guard, which set it to 0.
C40_Witness ==
  /\ lastDecode.tier = "guard"
  /\ lastDecode.pre_fuzzy = FuzzyBudget
  /\ cp.values.fuzzy_parse_count = 0
  /\ Cardinality({i \in 1..Len(probe.hist) : probe.hist[i] = "T3"}) >= FuzzyBudget

====
